---- MODULE Spec2Model ----
(***************************************************************************)
(* osmium::geom::Tile (contrib/libosmium/osmium/geom/tile.hpp).            *)
(*                                                                         *)
(* A tile is three uint32_t fields x, y, z.  The header offers two         *)
(* constructors, valid(), operator==, operator!= and operator<.            *)
(*                                                                         *)
(* Numbers.  Mercator coordinates are doubles in the source.  Here they    *)
(* are measured in grid units: the projected square [-M, M] x [-M, M] is   *)
(* 2^GridBits units wide, so M = 2^(GridBits-1) units, and every           *)
(* coordinate is a whole number of units.  scale = 2*M/n is then a power   *)
(* of two (possibly below one unit) and is kept as a reduced fraction      *)
(* num/den; every quotient the constructor forms is an exact rational.     *)
(* Field values are sampled up to 2^31 - 1.                                *)
(*                                                                         *)
(* Build.  assert() is compiled out when NDEBUG is defined; the variable   *)
(* ndebug says which build runs.                                           *)
(***************************************************************************)
EXTENDS Integers, FiniteSets, Sequences, TLC

\* Highest zoom level the preconditions allow (assert(zoom <= 30u)).
MaxZoom == 30

\* ---------------------------------------------------------------- bounds
\* The projected square is 2^GridBits grid units wide.
GridBits == 3
\* How far (grid units) the projection of an invalid location may lie
\* outside the projected square.
Margin == 8
\* How many zoom levels above MaxZoom are tried.
ZoomOver == 2

\* Limits of int32_t.
Int32Max == (2^30 - 1) + 2^30
Int32Min == (-Int32Max) - 1

\* detail::max_coordinate_epsg3857, in grid units.
max_coordinate_epsg3857 == 2^(GridBits - 1)

VARIABLES
    ndebug,     \* TRUE iff the build defines NDEBUG (assert is a no-op)
    pc,         \* position of the calling program
    zoom,       \* constructor argument
    tx, ty,     \* constructor arguments of Tile(zoom, tx, ty)
    location,   \* constructor argument of Tile(zoom, location)
    tile,       \* the constructed tile
    child,      \* the tile constructed for the same location at zoom + 1
    lhs, rhs, oth,  \* operands of the comparison operators
    ret,        \* return value of valid()
    cmp         \* return values of the comparison operators

vars == <<ndebug, pc, zoom, tx, ty, location, tile, child, lhs, rhs, oth, ret, cmp>>

\* No object (before construction, or construction aborted).
NoTile == [x |-> -1, y |-> -1, z |-> -1]

NoCmp == [done |-> FALSE]

\* ------------------------------------------------------ detail helpers

restrict_to_range_nomax(value, min, max) ==
    IF value < min THEN min ELSE value

\* detail::restrict_to_range<T>
restrict_to_range(value, min, max) ==
    IF value < min THEN min
    ELSE IF value > max THEN max
    ELSE value

\* const int32_t n = 1 << zoom   (zoom <= 30: no overflow)
n_tiles(z) == 2^z

\* const double scale = max_coordinate_epsg3857 * 2 / n, as the reduced
\* fraction num/den (both are powers of two).
scale_of(n) ==
    LET m2 == max_coordinate_epsg3857 * 2
    IN  IF n <= m2 THEN [num |-> m2 \div n, den |-> 1]
                   ELSE [num |-> 1, den |-> n \div m2]

\* Whether the double v / s lies in the range of int32_t after truncation,
\* i.e. -2^31 - 1 < v/s < 2^31.  Computed without forming v * s.den.
InInt32Range(v, s) ==
    IF s.den = 1 THEN TRUE
    ELSE /\ v < 2 * (2^30 \div s.den)
         /\ (-v) <= 2 * (2^30 \div s.den)

\* Outcomes of an out-of-range double -> int32_t conversion (undefined).
UBInt32 == {Int32Min, -1, 0, 1, Int32Max}

int32_cast_ceil(v, s) ==
    IF InInt32Range(v, s)
    THEN {-(((-v) * s.den) \div s.num)}
    ELSE UBInt32

\* int32_t(v / s): truncation toward zero; undefined when out of range.
\* The result is the set of values the conversion can produce.
int32_cast(v, s) ==
    IF InInt32Range(v, s)
    THEN {IF v >= 0 THEN (v * s.den) \div s.num
                    ELSE -(((-v) * s.den) \div s.num)}
    ELSE UBInt32

\* lonlat_to_mercator(location): the projected point of the location.
lonlat_to_mercator(loc) == loc.c

\* location.valid()
location_valid(loc) == loc.valid

\* ------------------------------------------------------------ struct Tile

XyzPre_nocoord(z, x, y) == z <= MaxZoom

\* The three asserts of Tile(zoom, tx, ty), in order.
XyzPre(z, x, y) ==
    /\ z <= MaxZoom
    /\ x < 2^z
    /\ y < 2^z

Tile_xyz_swapped(nd, z, x, y) ==
    IF ~nd /\ ~XyzPre(z, x, y)
    THEN [abort |-> TRUE, tile |-> NoTile]
    ELSE [abort |-> FALSE, tile |-> [x |-> y, y |-> x, z |-> z]]

\* explicit Tile(uint32_t zoom, uint32_t tx, uint32_t ty)
Tile_xyz(nd, z, x, y) ==
    IF ~nd /\ ~XyzPre(z, x, y)
    THEN [abort |-> TRUE, tile |-> NoTile]
    ELSE [abort |-> FALSE, tile |-> [x |-> x, y |-> y, z |-> z]]

PointPre_noloc(z, loc) == z <= MaxZoom

\* The two asserts of Tile(zoom, location).
PointPre(z, loc) ==
    /\ z <= MaxZoom
    /\ location_valid(loc)

\* Field values an execution with undefined behaviour may leave behind.
UBField == {0, 1, 2^MaxZoom, Int32Max}

raw_column(c, z) ==
    int32_cast(c.x + max_coordinate_epsg3857, scale_of(n_tiles(z)))

raw_row_flipped(c, z) ==
    int32_cast(c.y + max_coordinate_epsg3857, scale_of(n_tiles(z)))

raw_row(c, z) ==
    int32_cast(max_coordinate_epsg3857 - c.y, scale_of(n_tiles(z)))

\* explicit Tile(uint32_t zoom, const osmium::Location& location):
\* the set of possible outcomes.  For zoom > 30 without asserts, 1 << zoom
\* and n - 1 overflow int32_t (undefined).  After restrict_to_range the
\* value is in 0..n-1, so the conversion to uint32_t preserves it.
Tile_location(nd, z, loc) ==
    IF ~nd /\ ~PointPre(z, loc)
    THEN {[abort |-> TRUE, tile |-> NoTile]}
    ELSE IF z > MaxZoom
    THEN {[abort |-> FALSE, tile |-> [x |-> ux, y |-> uy, z |-> z]] :
            ux \in UBField, uy \in UBField}
    ELSE LET c == lonlat_to_mercator(loc)
             n == n_tiles(z)
         IN  {[abort |-> FALSE, tile |-> [x |-> vx, y |-> vy, z |-> z]] :
                vx \in {restrict_to_range(v, 0, n - 1) : v \in raw_column(c, z)},
                vy \in {restrict_to_range(v, 0, n - 1) : v \in raw_row(c, z)}}

valid_le(t) ==
    IF t.z > MaxZoom THEN FALSE
    ELSE LET max == 2^t.z IN t.x <= max /\ t.y < max

\* bool Tile::valid() const noexcept
valid(t) ==
    IF t.z > MaxZoom THEN FALSE
    ELSE LET max == 2^t.z IN t.x < max /\ t.y < max

operator_eq_noy(l, r) == l.z = r.z /\ l.x = r.x

\* operator==
operator_eq(l, r) == l.z = r.z /\ l.x = r.x /\ l.y = r.y

\* operator!=
operator_ne(l, r) == ~operator_eq(l, r)

operator_less_nozgt(l, r) ==
    IF l.z < r.z THEN TRUE
    ELSE IF l.x < r.x THEN TRUE
    ELSE IF l.x > r.x THEN FALSE
    ELSE l.y < r.y

\* operator<
operator_less(l, r) ==
    IF l.z < r.z THEN TRUE
    ELSE IF l.z > r.z THEN FALSE
    ELSE IF l.x < r.x THEN TRUE
    ELSE IF l.x > r.x THEN FALSE
    ELSE l.y < r.y

\* ---------------------------------------------------------------- inputs

\* Largest small field value the comparison operands are drawn from.
CmpMax == 1

\* Zoom arguments: every legal level and some above it.
ZoomLevels == 0..(MaxZoom + ZoomOver)

\* The same and a huge one.
ZoomSamples == ZoomLevels \cup {Int32Max}

\* Column / row arguments around the limit 2^z of zoom level z.
FieldSamples(z) ==
    IF z <= MaxZoom
    THEN {0, 1, 2^z - 1, 2^z, 2^z + 1, Int32Max}
    ELSE {0, 1, 2^MaxZoom, Int32Max}

Axis == (-(max_coordinate_epsg3857 + Margin))..(max_coordinate_epsg3857 + Margin)

InSquare(c) ==
    /\ c.x >= -max_coordinate_epsg3857 /\ c.x <= max_coordinate_epsg3857
    /\ c.y >= -max_coordinate_epsg3857 /\ c.y <= max_coordinate_epsg3857

Points == {[x |-> px, y |-> py] : px \in Axis, py \in Axis}

\* osmium::Location with its projection: a valid location projects into
\* the square [-M, M] x [-M, M], an invalid one somewhere outside it.
Locations ==
    {[valid |-> InSquare(p), c |-> p] : p \in Points}

NoLocation == [valid |-> FALSE, c |-> [x |-> 0, y |-> 0]]

CmpValues == (0..CmpMax) \cup {Int32Max}

TileSamples == {[x |-> vx, y |-> vy, z |-> vz] :
                  vx \in CmpValues, vy \in CmpValues, vz \in CmpValues}

\* --------------------------------------------------------------- actions

\* Tile t(zoom, tx, ty);
ConstructXYZ ==
    /\ pc = "start"
    /\ LET r == Tile_xyz(ndebug, zoom, tx, ty)
       IN  /\ pc' = IF r.abort THEN "aborted" ELSE "constructed"
           /\ tile' = r.tile
    /\ UNCHANGED <<ndebug, zoom, tx, ty, location, child, lhs, rhs, oth, ret, cmp>>

\* Tile t(zoom, location);
ConstructLocation ==
    /\ pc = "start"
    /\ \E r \in Tile_location(ndebug, zoom, location) :
           /\ pc' = IF r.abort THEN "aborted" ELSE "constructed"
           /\ tile' = r.tile
    /\ UNCHANGED <<ndebug, zoom, tx, ty, location, child, lhs, rhs, oth, ret, cmp>>

\* Tile c(zoom + 1, location);   for the location t was built from
ConstructChild ==
    /\ pc = "constructed"
    /\ \E r \in Tile_location(ndebug, zoom + 1, location) :
           /\ pc' = IF r.abort THEN "aborted" ELSE "refined"
           /\ child' = r.tile
    /\ UNCHANGED <<ndebug, zoom, tx, ty, location, tile, lhs, rhs, oth, ret, cmp>>

\* t.valid();   a const member: it assigns nothing
CallValid ==
    /\ pc = "constructed"
    /\ ret' = valid(tile)
    /\ pc' = "checked"
    /\ UNCHANGED <<ndebug, zoom, tx, ty, location, tile, child, lhs, rhs, oth, cmp>>

\* The comparison operators applied to the operands.
Compare ==
    /\ pc = "start"
    /\ cmp' = [done  |-> TRUE,
               lt_aa |-> operator_less(lhs, lhs),
               lt_ab |-> operator_less(lhs, rhs),
               lt_ba |-> operator_less(rhs, lhs),
               lt_bc |-> operator_less(rhs, oth),
               lt_ac |-> operator_less(lhs, oth),
               eq_aa |-> operator_eq(lhs, lhs),
               eq_ab |-> operator_eq(lhs, rhs),
               eq_ba |-> operator_eq(rhs, lhs),
               eq_bc |-> operator_eq(rhs, oth),
               eq_ac |-> operator_eq(lhs, oth),
               ne_ab |-> operator_ne(lhs, rhs)]
    /\ pc' = "compared"
    /\ UNCHANGED <<ndebug, zoom, tx, ty, location, tile, child, lhs, rhs, oth, ret>>

\* -------------------------------------------------------- specifications

\* Construction from explicit coordinates, then valid().
InitXYZ ==
    /\ ndebug \in BOOLEAN
    /\ pc = "start"
    /\ zoom \in ZoomSamples
    /\ tx \in FieldSamples(zoom)
    /\ ty \in FieldSamples(zoom)
    /\ location = NoLocation
    /\ tile = NoTile /\ child = NoTile
    /\ lhs = NoTile /\ rhs = NoTile /\ oth = NoTile
    /\ ret = FALSE /\ cmp = NoCmp

NextXYZ == ConstructXYZ \/ CallValid

SpecXYZ == InitXYZ /\ [][NextXYZ]_vars

\* Construction from a location, then valid() or the tile one level down.
InitPoint ==
    /\ ndebug \in BOOLEAN
    /\ pc = "start"
    /\ zoom \in ZoomLevels
    /\ tx = 0 /\ ty = 0
    /\ location \in Locations
    /\ tile = NoTile /\ child = NoTile
    /\ lhs = NoTile /\ rhs = NoTile /\ oth = NoTile
    /\ ret = FALSE /\ cmp = NoCmp

NextPoint == ConstructLocation \/ CallValid \/ ConstructChild

SpecPoint == InitPoint /\ [][NextPoint]_vars

\* The comparison operators on three tiles.
InitCmp ==
    /\ ndebug \in BOOLEAN
    /\ pc = "start"
    /\ zoom = 0 /\ tx = 0 /\ ty = 0
    /\ location = NoLocation
    /\ tile = NoTile /\ child = NoTile
    /\ lhs \in TileSamples /\ rhs \in TileSamples /\ oth \in TileSamples
    /\ ret = FALSE /\ cmp = NoCmp

NextCmp == Compare

SpecCmp == InitCmp /\ [][NextCmp]_vars

\* ------------------------------------------------------------ properties

\* Preconditions of Tile(zoom, location) hold for the current arguments.
PointArgsValid == zoom <= MaxZoom /\ location.valid

\* Reference rounding: floor of v / (2*M / 2^z), clamped into 0 .. 2^z - 1.
FloorClamp(v, z) ==
    LET m2  == max_coordinate_epsg3857 * 2
        raw == IF 2^z <= m2 THEN v \div (m2 \div 2^z) ELSE v * (2^z \div m2)
    IN  IF raw < 0 THEN 0 ELSE IF raw > 2^z - 1 THEN 2^z - 1 ELSE raw

\* C1: for zoom <= 30 and a valid location (projection anywhere in the
\* square, edges included) the tile built by Tile(zoom, location) has
\* z = zoom, x < 2^zoom, y < 2^zoom, and valid() returns true on it.
C1_PointTileValid ==
    (PointArgsValid /\ tile # NoTile) =>
        /\ tile.z = zoom
        /\ tile.x >= 0 /\ tile.x < 2^zoom
        /\ tile.y >= 0 /\ tile.y < 2^zoom
        /\ (pc = "checked" => ret = TRUE)

C1_Witness ==
    /\ pc = "checked" /\ ret = TRUE
    /\ zoom = MaxZoom /\ location.valid
    /\ location.c.x = max_coordinate_epsg3857
    /\ location.c.y = -max_coordinate_epsg3857
    /\ tile.x = 2^MaxZoom - 1

\* Both quotients of the constructor fit int32_t (always so for a
\* projection inside the square).
RawInRange ==
    /\ InInt32Range(location.c.x + max_coordinate_epsg3857, scale_of(2^zoom))
    /\ InInt32Range(max_coordinate_epsg3857 - location.c.y, scale_of(2^zoom))

\* C2: for zoom <= 30 and a valid location the constructor's column is
\* clamp(floor((px + M) / scale), 0, n-1) and its row is
\* clamp(floor((M - py) / scale), 0, n-1): truncation followed by clamping
\* agrees with the floor-based reference.  The same holds for every
\* construction that completes with zoom <= 30 and quotients in int32_t
\* range, negative quotients included.
C2_FloorReference ==
    /\ (PointArgsValid => RawInRange)
    /\ (zoom <= MaxZoom /\ tile # NoTile /\ RawInRange) =>
        /\ tile.x = FloorClamp(location.c.x + max_coordinate_epsg3857, zoom)
        /\ tile.y = FloorClamp(max_coordinate_epsg3857 - location.c.y, zoom)

\* A fractional raw column (0.5) and a raw row equal to n.
C2_Witness ==
    /\ pc = "constructed" /\ location.valid
    /\ zoom = GridBits - 1
    /\ location.c.x = 1 - max_coordinate_epsg3857
    /\ location.c.y = -max_coordinate_epsg3857
    /\ tile.x = 0 /\ tile.y = 2^zoom - 1

\* C8: with assertions enabled, Tile(zoom, location) with zoom > 30 or an
\* invalid location aborts before a column or row is computed; it never
\* returns a tile.
C8_PointAsserts ==
    (~ndebug /\ ~PointArgsValid) =>
        /\ pc \in {"start", "aborted"}
        /\ tile = NoTile

C8_Witness ==
    /\ ~ndebug /\ pc = "aborted" /\ tile = NoTile
    /\ zoom <= MaxZoom /\ ~location.valid

\* C9: for zoom <= 30 and a valid location, py = +M gives row 0, px = -M
\* gives column 0, py = -M gives row n-1 and px = +M gives column n-1;
\* at zoom 0 the tile is (x=0, y=0, z=0).
C9_Edges ==
    (PointArgsValid /\ tile # NoTile) =>
        /\ (location.c.y = max_coordinate_epsg3857 => tile.y = 0)
        /\ (location.c.x = -max_coordinate_epsg3857 => tile.x = 0)
        /\ (location.c.y = -max_coordinate_epsg3857 => tile.y = 2^zoom - 1)
        /\ (location.c.x = max_coordinate_epsg3857 => tile.x = 2^zoom - 1)
        /\ (zoom = 0 => tile = [x |-> 0, y |-> 0, z |-> 0])

C9_Witness ==
    /\ pc = "constructed" /\ location.valid /\ zoom = MaxZoom
    /\ location.c.x = -max_coordinate_epsg3857
    /\ location.c.y = -max_coordinate_epsg3857
    /\ tile.x = 0 /\ tile.y = 2^MaxZoom - 1

\* C10: for a valid location and zoom in 0..29, the tile at zoom + 1 is a
\* child of the tile at zoom: child.x div 2 = tile.x, child.y div 2 = tile.y.
C10_Quadtree ==
    (pc = "refined" /\ location.valid /\ zoom < MaxZoom) =>
        /\ child.z = zoom + 1
        /\ child.x \div 2 = tile.x
        /\ child.y \div 2 = tile.y

\* On the eastern edge, where both levels clamp.
C10_Witness ==
    /\ pc = "refined" /\ location.valid /\ zoom = MaxZoom - 1
    /\ location.c.x = max_coordinate_epsg3857
    /\ tile.x = 2^zoom - 1
    /\ child.x = 2^MaxZoom - 1

\* Arguments of Tile(zoom, tx, ty) satisfy its documented precondition.
XyzArgsValid == zoom <= MaxZoom /\ tx < 2^zoom /\ ty < 2^zoom

Verbatim == tile = [x |-> tx, y |-> ty, z |-> zoom]

\* C3: valid() returns true iff z <= 30, x < 2^z and y < 2^z (false for
\* every z > 30), and it changes none of the fields.
C3_ValidIff ==
    /\ [](pc = "checked" =>
            (ret <=> (tile.z <= MaxZoom /\ tile.x < 2^tile.z /\ tile.y < 2^tile.z)))
    /\ [][pc' = "checked" => tile' = tile]_vars

C3_Witness ==
    /\ pc = "checked" /\ ret = FALSE
    /\ tile.z = MaxZoom + 1 /\ tile.x = 0 /\ tile.y = 0

\* C4: for zoom <= 30, column < 2^zoom, row < 2^zoom, Tile(zoom, column,
\* row) completes with z = zoom, x = column, y = row, and valid() is true.
C4_XyzVerbatim ==
    (XyzArgsValid /\ pc # "start") =>
        /\ pc # "aborted"
        /\ Verbatim
        /\ (pc = "checked" => ret = TRUE)

C4_Witness ==
    /\ ~ndebug /\ pc = "checked" /\ ret = TRUE
    /\ zoom = MaxZoom /\ tx = 2^MaxZoom - 1 /\ ty = 0
    /\ tile.x = 2^MaxZoom - 1 /\ tile.y = 0 /\ tile.z = MaxZoom

LexLess(l, r) ==
    \/ l.z < r.z
    \/ l.z = r.z /\ l.x < r.x
    \/ l.z = r.z /\ l.x = r.x /\ l.y < r.y

\* C6: operator< is the lexicographic order on (z, x, y): irreflexive,
\* asymmetric, transitive, exactly one of a < b, a == b, b < a holds, and
\* a smaller zoom is less whatever x and y are.
C6_StrictTotalOrder ==
    pc = "compared" =>
        /\ cmp.lt_ab = LexLess(lhs, rhs)
        /\ ~cmp.lt_aa
        /\ ~(cmp.lt_ab /\ cmp.lt_ba)
        /\ ((cmp.lt_ab /\ cmp.lt_bc) => cmp.lt_ac)
        /\ (cmp.lt_ab \/ cmp.eq_ab \/ cmp.lt_ba)
        /\ ~(cmp.lt_ab /\ cmp.eq_ab) /\ ~(cmp.lt_ba /\ cmp.eq_ab)
        /\ (lhs.z < rhs.z => cmp.lt_ab)

\* A chain a < b < c in which zoom decides against x and y.
C6_Witness ==
    /\ pc = "compared"
    /\ lhs.z < rhs.z /\ lhs.x > rhs.x /\ lhs.y > rhs.y
    /\ rhs.z = oth.z /\ rhs.x = oth.x /\ rhs.y < oth.y
    /\ cmp.lt_ab /\ cmp.lt_bc /\ cmp.lt_ac /\ ~cmp.lt_ba

\* C7: operator== holds iff z, x and y are pairwise equal (reflexive,
\* symmetric, transitive); operator!= is its negation.
C7_Equality ==
    pc = "compared" =>
        /\ cmp.eq_ab = (lhs.z = rhs.z /\ lhs.x = rhs.x /\ lhs.y = rhs.y)
        /\ cmp.eq_aa
        /\ cmp.eq_ab = cmp.eq_ba
        /\ ((cmp.eq_ab /\ cmp.eq_bc) => cmp.eq_ac)
        /\ cmp.ne_ab = ~cmp.eq_ab

\* Two tiles differing in the row only.
C7_Witness ==
    /\ pc = "compared"
    /\ lhs.z = rhs.z /\ lhs.x = rhs.x /\ lhs.y # rhs.y
    /\ ~cmp.eq_ab /\ cmp.ne_ab

====
